---- MODULE Spec2Model ----
(***************************************************************************)
(* Voice agent: the web demo (app.py) and the messaging bot                *)
(* (telegram_bot.py) driving VoiceAgent (voice_agent.py).                  *)
(*                                                                         *)
(* The web demo keeps ONE module-level agent that every browser client     *)
(* shares; its handlers are plain functions that the web framework runs on *)
(* worker threads, so handlers of different clients (and of different      *)
(* buttons) overlap.  The messaging bot keeps one agent per user id and    *)
(* its handlers run one update at a time on the bot's event loop.          *)
(*                                                                         *)
(* The reasoning engine (the prebuilt ReAct graph behind agent.invoke),    *)
(* the transcription backend and the synthesis backend are collaborators:  *)
(* each of their calls is a nondeterministic choice over the outcomes the  *)
(* call can have (a result, or an exception).                              *)
(***************************************************************************)
EXTENDS Integers, Sequences, FiniteSets, TLC

\* ---------------------------------------------------------------- bounds
\* Submissions (text or audio turns) explored over the whole run.
MaxTurns == 2

\* VoiceAgent(max_history=...): the constructor parameter (default 10),
\* explored at a small value so that truncation happens within MaxTurns.
max_history == 1

\* The graph's step limit per invoke (one step per node run; the library
\* default is 25 and the code passes no config), explored at a small value.
recursion_limit == 3

\* Words an argument of the calculator is put together from.
MaxWords == 4

\* ------------------------------------------------------------- identities
WebClients == {"c1", "c2"}
TgUsers == {"u1", "u2"}
Procs == WebClients \cup TgUsers

\* app.py and telegram_bot.py are two programs, each started by its own main
\* and each with its own agents; a run is a run of one of them.
Programs == {"web", "bot"}
ProgramOf(p) == IF p \in WebClients THEN "web" ELSE "bot"

GlobalAgent == "global"
Agents == {GlobalAgent} \cup TgUsers

\* The agent (session) a caller's handlers work on: the web demo's one global
\* agent, or the bot's user_agents[user_id].
AgentOf(p) == IF p \in WebClients THEN GlobalAgent ELSE p

\* ---------------------------------------------------------------- messages
HumanMessage(t, c) == [role |-> "human", turn |-> t, content |-> c, tool_calls |-> FALSE]
AIMessage(t, c, tc) == [role |-> "ai", turn |-> t, content |-> c, tool_calls |-> tc]
ToolMessage(t) == [role |-> "tool", turn |-> t, content |-> "result", tool_calls |-> FALSE]

\* What generate_response_with_tools returns: the content of an AIMessage
\* (of the turn that produced it), the fixed apology, or the error text
\* naming the exception.
NoResponse == [kind |-> "none", turn |-> 0, why |-> "none"]
FallbackResponse == [kind |-> "fallback", turn |-> 0, why |-> "none"]
ErrorResponse(e) == [kind |-> "error", turn |-> 0, why |-> e]

VARIABLES
    program,       \* which program this run is: the web demo or the bot
    created,       \* agents constructed so far (global agent / user_agents keys)
    messages,      \* conversation_state["messages"] of every agent
    nextTurn,      \* number of the next submission
    pc,            \* position of every caller's handler
    op,            \* the handler running for the caller
    text,          \* user_message / transcription of the running handler
    turn,          \* submission number of the running handler
    graph,         \* the graph's message state during agent.invoke
    steps,         \* graph steps taken in this invoke
    llm_calls,     \* reasoning-engine calls in this invoke
    tool_calls,    \* tool executions in this invoke
    replies,       \* what the engine replied, call by call, in this invoke
    exc,           \* the exception travelling up the handler's stack
    response,      \* what generate_response_with_tools returned
    temp_in,       \* the handler's input temp file
    temp_out,      \* the handler's response temp file
    leftover,      \* a handler that has returned left a temp file on disk
    preprocessed,  \* reduce_noise ran on this input
    transcribed,   \* transcribe ran on this input
    before,        \* the agent's history when the handler started
    calls,         \* the pipeline steps the running handler has called, in order
    spoken,        \* the text handed to text_to_speech
    cleared,       \* submissions whose messages a reset_history has removed
    tool,          \* the tool of TOOLS being called
    argument,      \* the argument the tool was called with
    expression,    \* calculator's local variable expression
    tool_pc,       \* position of the tool call
    tool_result,   \* what the tool call returned
    evaluated      \* calculator passed its expression to eval

agentVars == <<program, created, messages, nextTurn, pc, op, text, turn, graph,
               steps, llm_calls, tool_calls, replies, exc, response,
               temp_in, temp_out, leftover, preprocessed,
               transcribed, before, calls, spoken, cleared>>

toolVars == <<tool, argument, expression, tool_pc, tool_result, evaluated>>

vars == <<agentVars, toolVars>>

engineVars == <<graph, steps, llm_calls, tool_calls, replies>>
replyVars == <<exc, response>>
fileVars == <<temp_in, temp_out, leftover>>
audioVars == <<preprocessed, transcribed, calls, spoken>>

AgentsInit ==
    /\ program \in Programs
    /\ created = {}
    /\ messages = [a \in Agents |-> <<>>]
    /\ nextTurn = 1
    /\ pc = [p \in Procs |-> "idle"]
    /\ op = [p \in Procs |-> "none"]
    /\ text = [p \in Procs |-> ""]
    /\ turn = [p \in Procs |-> 0]
    /\ graph = [p \in Procs |-> <<>>]
    /\ steps = [p \in Procs |-> 0]
    /\ llm_calls = [p \in Procs |-> 0]
    /\ tool_calls = [p \in Procs |-> 0]
    /\ replies = [p \in Procs |-> <<>>]
    /\ exc = [p \in Procs |-> "none"]
    /\ response = [p \in Procs |-> NoResponse]
    /\ temp_in = [p \in Procs |-> "none"]
    /\ temp_out = [p \in Procs |-> "none"]
    /\ leftover = FALSE
    /\ preprocessed = [p \in Procs |-> FALSE]
    /\ transcribed = [p \in Procs |-> FALSE]
    /\ before = [p \in Procs |-> <<>>]
    /\ calls = [p \in Procs |-> <<>>]
    /\ spoken = [p \in Procs |-> NoResponse]
    /\ cleared = {}

\* No tool call is running.
ToolsInit ==
    /\ tool = "none"
    /\ argument = <<>>
    /\ expression = <<>>
    /\ tool_pc = "idle"
    /\ tool_result = "none"
    /\ evaluated = FALSE

Init == AgentsInit /\ ToolsInit

\* Exception e is raised in p's handler and control goes to position handler.
Raise(p, e, handler) ==
    /\ exc' = [exc EXCEPT ![p] = e]
    /\ pc' = [pc EXCEPT ![p] = handler]

\* ------------------------------------------- generate_response_with_tools

\* self.conversation_state["messages"].append(HumanMessage(content=user_message))
GRAppend(p) ==
    /\ pc[p] = "gr_append"
    /\ messages' = [messages EXCEPT ![AgentOf(p)] =
                        Append(@, HumanMessage(turn[p], text[p]))]
    /\ calls' = [calls EXCEPT ![p] = Append(@, "reason")]
    /\ pc' = [pc EXCEPT ![p] = "gr_truncate"]
    /\ UNCHANGED <<toolVars, program, cleared, created, nextTurn, op, text,
                   turn, engineVars, replyVars, fileVars, preprocessed,
                   transcribed, spoken, before>>

\* messages[-self.max_history * 2:]
LastMessages(msgs) ==
    IF max_history * 2 = 0 THEN msgs
    ELSE SubSeq(msgs, Len(msgs) - max_history * 2 + 1, Len(msgs))

\* if len(messages) > self.max_history * 2: messages = messages[-max_history*2:]
Truncate(msgs) ==
    IF Len(msgs) > max_history * 2 THEN LastMessages(msgs) ELSE msgs

GRTruncate(p) ==
    /\ pc[p] = "gr_truncate"
    /\ messages' = [messages EXCEPT ![AgentOf(p)] = Truncate(@)]
    /\ pc' = [pc EXCEPT ![p] = "gr_invoke"]
    /\ UNCHANGED <<toolVars, program, cleared, created, nextTurn, op, text,
                   turn, engineVars, replyVars, fileVars, audioVars, before>>

\* result = self.agent.invoke(self.conversation_state): the graph starts from
\* the messages the agent holds at this moment.
GRInvoke(p) ==
    /\ pc[p] = "gr_invoke"
    /\ graph' = [graph EXCEPT ![p] = messages[AgentOf(p)]]
    /\ steps' = [steps EXCEPT ![p] = 0]
    /\ llm_calls' = [llm_calls EXCEPT ![p] = 0]
    /\ tool_calls' = [tool_calls EXCEPT ![p] = 0]
    /\ replies' = [replies EXCEPT ![p] = <<>>]
    /\ pc' = [pc EXCEPT ![p] = "agent_node"]
    /\ UNCHANGED <<toolVars, program, cleared, created, messages, nextTurn,
                   op, text, turn, replyVars, fileVars, audioVars, before>>

\* The ReAct graph built by create_react_agent(self.llm, TOOLS, prompt=...):
\* with s steps taken, too few steps remain to run the tools and ask again.
MoreStepsNeeded(s) == recursion_limit - s < 2

\* Answers the engine can give: text, or an AIMessage with empty content.
AnswerContents == {"answer", ""}

\* The graph's "agent" node: one reasoning-engine call.  The call raises
\* (backend unreachable, auth, quota), or returns a final answer, or requests
\* a tool call; a build of the graph that tracks remaining steps answers
\* with an apology instead of requesting tools it has no steps left to run
\* (the engine's reply was a tool request, the graph stores the apology).
AgentNode(p) ==
    /\ pc[p] = "agent_node"
    /\ steps[p] < recursion_limit
    /\ steps' = [steps EXCEPT ![p] = @ + 1]
    /\ llm_calls' = [llm_calls EXCEPT ![p] = @ + 1]
    /\ \/ /\ Raise(p, "engine", "gr_except")
          /\ replies' = [replies EXCEPT ![p] = Append(@, "raise")]
          /\ UNCHANGED graph
       \/ /\ \E c \in AnswerContents :
                graph' = [graph EXCEPT ![p] = Append(@, AIMessage(turn[p], c, FALSE))]
          /\ replies' = [replies EXCEPT ![p] = Append(@, "answer")]
          /\ pc' = [pc EXCEPT ![p] = "gr_writeback"]
          /\ UNCHANGED exc
       \/ /\ graph' = [graph EXCEPT ![p] = Append(@, AIMessage(turn[p], "", TRUE))]
          /\ replies' = [replies EXCEPT ![p] = Append(@, "tool")]
          /\ pc' = [pc EXCEPT ![p] = "tools_node"]
          /\ UNCHANGED exc
       \/ /\ MoreStepsNeeded(steps[p] + 1)
          /\ graph' = [graph EXCEPT ![p] = Append(@, AIMessage(turn[p], "sorry", FALSE))]
          /\ replies' = [replies EXCEPT ![p] = Append(@, "tool")]
          /\ pc' = [pc EXCEPT ![p] = "gr_writeback"]
          /\ UNCHANGED exc
    /\ UNCHANGED <<toolVars, program, cleared, created, messages, nextTurn,
                   op, text, turn, tool_calls, response, fileVars, audioVars,
                   before>>

\* The graph's "tools" node: runs the requested tool of TOOLS and appends
\* its text result (a tool returns text also when its backend fails).
ToolsNode(p) ==
    /\ pc[p] = "tools_node"
    /\ steps[p] < recursion_limit
    /\ steps' = [steps EXCEPT ![p] = @ + 1]
    /\ tool_calls' = [tool_calls EXCEPT ![p] = @ + 1]
    /\ graph' = [graph EXCEPT ![p] = Append(@, ToolMessage(turn[p]))]
    /\ pc' = [pc EXCEPT ![p] = "agent_node"]
    /\ UNCHANGED <<toolVars, program, cleared, created, messages, nextTurn,
                   op, text, turn, llm_calls, replies, replyVars, fileVars,
                   audioVars, before>>

\* The graph has taken recursion_limit steps and is not finished: invoke raises.
GraphRecursion(p) ==
    /\ pc[p] \in {"agent_node", "tools_node"}
    /\ steps[p] >= recursion_limit
    /\ Raise(p, "recursion", "gr_except")
    /\ UNCHANGED <<toolVars, program, cleared, created, messages, nextTurn,
                   op, text, turn, engineVars, response, fileVars, audioVars,
                   before>>

Max(S) == CHOOSE x \in S : \A y \in S : y <= x

\* for msg in reversed(agent_messages): the last AIMessage with content,
\* or the fixed apology.
FinalResponse(msgs) ==
    LET withContent == {i \in 1..Len(msgs) :
                            msgs[i].role = "ai" /\ msgs[i].content # ""}
    IN  IF withContent = {} THEN FallbackResponse
        ELSE [kind |-> "answer", turn |-> msgs[Max(withContent)].turn, why |-> "none"]

\* GRWriteBack without self.conversation_state = result.
GRWriteBack_NoStore(p) ==
    /\ pc[p] = "gr_writeback"
    /\ response' = [response EXCEPT ![p] = FinalResponse(graph[p])]
    /\ graph' = [graph EXCEPT ![p] = <<>>]
    /\ pc' = [pc EXCEPT ![p] = "gr_return"]
    /\ UNCHANGED <<toolVars, program, cleared, created, messages, nextTurn,
                   op, text, turn, steps, llm_calls, tool_calls, replies, exc,
                   fileVars, audioVars, before>>

\* agent.invoke returned: pick the final response, self.conversation_state = result.
GRWriteBack(p) ==
    /\ pc[p] = "gr_writeback"
    /\ response' = [response EXCEPT ![p] = FinalResponse(graph[p])]
    /\ messages' = [messages EXCEPT ![AgentOf(p)] = graph[p]]
    /\ graph' = [graph EXCEPT ![p] = <<>>]
    /\ pc' = [pc EXCEPT ![p] = "gr_return"]
    /\ UNCHANGED <<toolVars, program, cleared, created, nextTurn, op, text,
                   turn, steps, llm_calls, tool_calls, replies, exc, fileVars,
                   audioVars, before>>

\* GRExcept catching nothing: the exception leaves
\* generate_response_with_tools and reaches the handler.
GRExcept_Propagates(p) ==
    /\ pc[p] = "gr_except"
    /\ graph' = [graph EXCEPT ![p] = <<>>]
    /\ pc' = [pc EXCEPT ![p] = "handler_except"]
    /\ UNCHANGED <<toolVars, program, cleared, created, messages, nextTurn,
                   op, text, turn, steps, llm_calls, tool_calls, replies,
                   replyVars, fileVars, audioVars, before>>

\* except Exception as e: return f"Entschuldigung, es gab einen Fehler: {e}"
GRExcept(p) ==
    /\ pc[p] = "gr_except"
    /\ response' = [response EXCEPT ![p] = ErrorResponse(exc[p])]
    /\ exc' = [exc EXCEPT ![p] = "none"]
    /\ graph' = [graph EXCEPT ![p] = <<>>]
    /\ pc' = [pc EXCEPT ![p] = "gr_return"]
    /\ UNCHANGED <<toolVars, program, cleared, created, messages, nextTurn,
                   op, text, turn, steps, llm_calls, tool_calls, replies,
                   fileVars, audioVars, before>>

\* VoiceAgent.reset_history: self.conversation_state = {"messages": []}
ResetHistory(a, m) == [m EXCEPT ![a] = <<>>]

\* The submissions whose messages reset_history removes from agent a.
Removed(a) == {messages[a][i].turn : i \in 1..Len(messages[a])}

\* ------------------------------------------------------- VoiceAgent.process

\* transcription = self.transcribe(audio_path): text (empty for silence), or
\* the backend raises into the calling handler.
Transcribe(p) ==
    /\ pc[p] = "transcribe"
    /\ transcribed' = [transcribed EXCEPT ![p] = TRUE]
    /\ calls' = [calls EXCEPT ![p] = Append(@, "transcribe")]
    /\ \/ \E t \in {"", "hi"} :
            /\ text' = [text EXCEPT ![p] = t]
            /\ pc' = [pc EXCEPT ![p] = "gr_append"]
            /\ UNCHANGED exc
       \/ /\ Raise(p, "transcription", "handler_except")
          /\ UNCHANGED text
    /\ UNCHANGED <<toolVars, program, cleared, created, messages, nextTurn,
                   op, turn, engineVars, response, fileVars, preprocessed,
                   spoken, before>>

\* generate_response_with_tools has returned and its invoke is over.
InvokeOver(p) ==
    /\ steps' = [steps EXCEPT ![p] = 0]
    /\ llm_calls' = [llm_calls EXCEPT ![p] = 0]
    /\ tool_calls' = [tool_calls EXCEPT ![p] = 0]
    /\ replies' = [replies EXCEPT ![p] = <<>>]
    /\ UNCHANGED graph

\* TextToSpeech speaking a fixed sentence instead of the response.
TextToSpeech_FixedText(p) ==
    /\ pc[p] = "gr_return"
    /\ op[p] = "audio"
    /\ InvokeOver(p)
    /\ calls' = [calls EXCEPT ![p] = Append(@, "synthesize")]
    /\ spoken' = [spoken EXCEPT ![p] = FallbackResponse]
    /\ \/ /\ pc' = [pc EXCEPT ![p] = "process_return"]
          /\ UNCHANGED exc
       \/ Raise(p, "synthesis", "handler_except")
    /\ UNCHANGED <<toolVars, program, cleared, created, messages, nextTurn,
                   op, text, turn, response, fileVars, preprocessed,
                   transcribed, before>>

\* audio_bytes = self.text_to_speech(response, voice_id), or the backend raises.
TextToSpeech(p) ==
    /\ pc[p] = "gr_return"
    /\ op[p] = "audio"
    /\ InvokeOver(p)
    /\ calls' = [calls EXCEPT ![p] = Append(@, "synthesize")]
    /\ spoken' = [spoken EXCEPT ![p] = response[p]]
    /\ \/ /\ pc' = [pc EXCEPT ![p] = "process_return"]
          /\ UNCHANGED exc
       \/ Raise(p, "synthesis", "handler_except")
    /\ UNCHANGED <<toolVars, program, cleared, created, messages, nextTurn,
                   op, text, turn, response, fileVars, preprocessed,
                   transcribed, before>>

\* ------------------------------------------------------------- handlers

\* A handler takes up a submission: it gets the next submission number and
\* the history its agent holds at that moment is noted; it goes on at
\* position nxt, with exception e raised if its first calls raised one.
Begin(p, o, t, nxt, e) ==
    /\ pc[p] = "idle"
    /\ program = ProgramOf(p)
    /\ nextTurn <= MaxTurns
    /\ nextTurn' = nextTurn + 1
    /\ turn' = [turn EXCEPT ![p] = nextTurn]
    /\ op' = [op EXCEPT ![p] = o]
    /\ text' = [text EXCEPT ![p] = t]
    /\ before' = [before EXCEPT ![p] = messages[AgentOf(p)]]
    /\ pc' = [pc EXCEPT ![p] = nxt]
    /\ exc' = [exc EXCEPT ![p] = e]

\* A submission the handler turns away at once: nothing but the count changes.
Rejected(p) ==
    /\ pc[p] = "idle"
    /\ program = ProgramOf(p)
    /\ nextTurn <= MaxTurns
    /\ nextTurn' = nextTurn + 1
    /\ UNCHANGED <<turn, op, text, before, pc, exc>>

\* The handler returns to its caller with its temp files in states tin and
\* tout: its locals (the files' paths among them) are gone, and a file that
\* exists now stays on disk.
ReturnToCaller(p, tin, tout) ==
    /\ pc' = [pc EXCEPT ![p] = "idle"]
    /\ op' = [op EXCEPT ![p] = "none"]
    /\ text' = [text EXCEPT ![p] = ""]
    /\ turn' = [turn EXCEPT ![p] = 0]
    /\ graph' = [graph EXCEPT ![p] = <<>>]
    /\ steps' = [steps EXCEPT ![p] = 0]
    /\ llm_calls' = [llm_calls EXCEPT ![p] = 0]
    /\ tool_calls' = [tool_calls EXCEPT ![p] = 0]
    /\ replies' = [replies EXCEPT ![p] = <<>>]
    /\ exc' = [exc EXCEPT ![p] = "none"]
    /\ response' = [response EXCEPT ![p] = NoResponse]
    /\ preprocessed' = [preprocessed EXCEPT ![p] = FALSE]
    /\ transcribed' = [transcribed EXCEPT ![p] = FALSE]
    /\ calls' = [calls EXCEPT ![p] = <<>>]
    /\ spoken' = [spoken EXCEPT ![p] = NoResponse]
    /\ before' = [before EXCEPT ![p] = <<>>]
    /\ temp_in' = [temp_in EXCEPT ![p] = "none"]
    /\ temp_out' = [temp_out EXCEPT ![p] = "none"]
    /\ leftover' = (leftover \/ tin = "exists" \/ tout = "exists")

\* ------------------------------------------------------- web demo (app.py)

\* text_chat(message, chat_history): an empty message returns at once;
\* otherwise initialize_agent() and agent.chat(message).
TextChat(p) ==
    /\ p \in WebClients
    /\ \E m \in {"", "hi"} :
          IF m = ""
          THEN /\ Rejected(p)
               /\ UNCHANGED created
          ELSE /\ Begin(p, "text", m, "gr_append", "none")
               /\ created' = created \cup {GlobalAgent}
    /\ UNCHANGED <<toolVars, program, cleared, messages, engineVars, response,
                   fileVars, audioVars>>

\* text_chat after agent.chat returned: chat_history.append((message, response)).
TextChatReturn(p) ==
    /\ p \in WebClients
    /\ pc[p] = "gr_return"
    /\ op[p] = "text"
    /\ ReturnToCaller(p, temp_in[p], temp_out[p])
    /\ UNCHANGED <<toolVars, program, cleared, created, messages, nextTurn>>

\* process_audio(audio_input, chat_history) up to reduce_noise: no audio
\* returns at once; otherwise initialize_agent() and reduce_noise(), which
\* returns the filtered samples or raises.
ProcessAudio(p) ==
    /\ p \in WebClients
    /\ \E audio \in {"none", "samples"} :
          IF audio = "none"
          THEN /\ Rejected(p)
               /\ UNCHANGED <<created, preprocessed>>
          ELSE /\ created' = created \cup {GlobalAgent}
               /\ \/ /\ Begin(p, "audio", "", "write_wav", "none")
                     /\ preprocessed' = [preprocessed EXCEPT ![p] = TRUE]
                  \/ /\ Begin(p, "audio", "", "handler_except", "preprocessing")
                     /\ UNCHANGED preprocessed
    /\ UNCHANGED <<toolVars, program, cleared, messages, engineVars, response,
                   fileVars, transcribed, calls, spoken>>

\* with tempfile.NamedTemporaryFile(delete=False, suffix='.wav'): sf.write(...)
WriteWav(p) ==
    /\ p \in WebClients
    /\ pc[p] = "write_wav"
    /\ temp_in' = [temp_in EXCEPT ![p] = "exists"]
    /\ \/ /\ pc' = [pc EXCEPT ![p] = "transcribe"]
          /\ UNCHANGED exc
       \/ Raise(p, "io", "handler_except")
    /\ UNCHANGED <<toolVars, program, cleared, created, messages, nextTurn,
                   op, text, turn, engineVars, response, temp_out, leftover,
                   audioVars, before>>

\* process_audio after agent.process returned: os.unlink(temp_path), write the
\* response to a new temp file and return its path.
ProcessAudioReturn(p) ==
    /\ p \in WebClients
    /\ pc[p] = "process_return"
    /\ ReturnToCaller(p, "none", "exists")
    /\ UNCHANGED <<toolVars, program, cleared, created, messages, nextTurn>>

\* process_audio: except Exception: chat_history.append(("Fehler", ...)); return
ProcessAudioExcept(p) ==
    /\ p \in WebClients
    /\ pc[p] = "handler_except"
    /\ ReturnToCaller(p, temp_in[p], temp_out[p])
    /\ UNCHANGED <<toolVars, program, cleared, created, messages, nextTurn>>

\* The reset button: reset_conversation() is called.
ResetConversation(p) ==
    /\ p \in WebClients
    /\ pc[p] = "idle"
    /\ program = ProgramOf(p)
    /\ op' = [op EXCEPT ![p] = "reset"]
    /\ before' = [before EXCEPT ![p] = messages[AgentOf(p)]]
    /\ pc' = [pc EXCEPT ![p] = "reset"]
    /\ UNCHANGED <<toolVars, program, cleared, created, messages, nextTurn,
                   text, turn, engineVars, replyVars, fileVars, audioVars>>

\* reset_conversation(): if agent: agent.reset_history(); return [], None
ResetConversationRun(p) ==
    /\ p \in WebClients
    /\ pc[p] = "reset"
    /\ messages' = IF GlobalAgent \in created
                   THEN ResetHistory(GlobalAgent, messages) ELSE messages
    /\ cleared' = cleared \cup Removed(GlobalAgent)
    /\ ReturnToCaller(p, temp_in[p], temp_out[p])
    /\ UNCHANGED <<toolVars, program, created, nextTurn>>

\* ------------------------------------------- messaging bot (telegram_bot.py)

\* The bot's application handles one update at a time.
LoopFree == \A q \in TgUsers : pc[q] = "idle"

\* handle_text_message: get_user_agent(user_id) and agent.chat(message_text).
HandleTextMessage(p) ==
    /\ p \in TgUsers
    /\ LoopFree
    /\ Begin(p, "text", "hi", "gr_append", "none")
    /\ created' = created \cup {p}
    /\ UNCHANGED <<toolVars, program, cleared, messages, engineVars, response,
                   fileVars, audioVars>>

\* handle_text_message after agent.chat returned: reply_text(response).
HandleTextReply(p) ==
    /\ p \in TgUsers
    /\ pc[p] = "gr_return"
    /\ op[p] = "text"
    /\ ReturnToCaller(p, temp_in[p], temp_out[p])
    /\ UNCHANGED <<toolVars, program, cleared, created, messages, nextTurn>>

\* handle_voice_message up to agent.process: get_file() (may raise), create
\* the .ogg temp file and download into it (may raise), get_user_agent().
HandleVoiceMessage(p) ==
    /\ p \in TgUsers
    /\ LoopFree
    /\ \/ /\ Begin(p, "audio", "", "handler_except", "io")
          /\ UNCHANGED <<created, temp_in>>
       \/ /\ Begin(p, "audio", "", "handler_except", "io")
          /\ temp_in' = [temp_in EXCEPT ![p] = "exists"]
          /\ UNCHANGED created
       \/ /\ Begin(p, "audio", "", "transcribe", "none")
          /\ temp_in' = [temp_in EXCEPT ![p] = "exists"]
          /\ created' = created \cup {p}
    /\ UNCHANGED <<toolVars, program, cleared, messages, engineVars, response,
                   temp_out, leftover, audioVars>>

\* handle_voice_message after agent.process returned: reply_text(...) (may
\* raise), then write result['audio'] to a new .mp3 temp file.
HandleVoiceReplyText(p) ==
    /\ p \in TgUsers
    /\ pc[p] = "process_return"
    /\ \/ /\ pc' = [pc EXCEPT ![p] = "reply_voice"]
          /\ temp_out' = [temp_out EXCEPT ![p] = "exists"]
          /\ UNCHANGED exc
       \/ /\ Raise(p, "io", "handler_except")
          /\ UNCHANGED temp_out
    /\ UNCHANGED <<toolVars, program, cleared, created, messages, nextTurn,
                   op, text, turn, engineVars, response, temp_in, leftover,
                   audioVars, before>>

\* reply_voice(voice=audio_file) raises into the except clause, or it returns
\* and os.remove(response_path), os.remove(temp_path) run.
HandleVoiceReplyVoice(p) ==
    /\ p \in TgUsers
    /\ pc[p] = "reply_voice"
    /\ \/ ReturnToCaller(p, "none", "none")
       \/ /\ Raise(p, "io", "handler_except")
          /\ UNCHANGED <<op, text, turn, engineVars, response, fileVars,
                         audioVars, before>>
    /\ UNCHANGED <<toolVars, program, cleared, created, messages, nextTurn>>

\* handle_voice_message: except Exception: reply_text("Fehler ...")
HandleVoiceExcept(p) ==
    /\ p \in TgUsers
    /\ pc[p] = "handler_except"
    /\ ReturnToCaller(p, temp_in[p], temp_out[p])
    /\ UNCHANGED <<toolVars, program, cleared, created, messages, nextTurn>>

\* The /reset command arrives: reset_command gets the user's agent.
ResetCommand(p) ==
    /\ p \in TgUsers
    /\ LoopFree
    /\ program = ProgramOf(p)
    /\ op' = [op EXCEPT ![p] = "reset"]
    /\ before' = [before EXCEPT ![p] = messages[AgentOf(p)]]
    /\ created' = created \cup {p}
    /\ pc' = [pc EXCEPT ![p] = "reset"]
    /\ UNCHANGED <<toolVars, program, cleared, messages, nextTurn, text, turn,
                   engineVars, replyVars, fileVars, audioVars>>

\* reset_command: agent.reset_history(); reply_text(...)
ResetCommandRun(p) ==
    /\ p \in TgUsers
    /\ pc[p] = "reset"
    /\ messages' = ResetHistory(p, messages)
    /\ cleared' = cleared \cup Removed(p)
    /\ ReturnToCaller(p, temp_in[p], temp_out[p])
    /\ UNCHANGED <<toolVars, program, created, nextTurn>>

\* A request arrives and its handler starts.
Start(p) ==
    \/ TextChat(p) \/ ProcessAudio(p) \/ ResetConversation(p)
    \/ HandleTextMessage(p) \/ HandleVoiceMessage(p) \/ ResetCommand(p)

\* A running handler takes its next step.
Continue(p) ==
    \/ TextChatReturn(p)
    \/ WriteWav(p) \/ ProcessAudioReturn(p) \/ ProcessAudioExcept(p)
    \/ ResetConversationRun(p)
    \/ HandleTextReply(p)
    \/ HandleVoiceReplyText(p) \/ HandleVoiceReplyVoice(p) \/ HandleVoiceExcept(p)
    \/ ResetCommandRun(p)
    \/ Transcribe(p) \/ TextToSpeech(p)
    \/ GRAppend(p) \/ GRTruncate(p) \/ GRInvoke(p)
    \/ AgentNode(p) \/ ToolsNode(p) \/ GraphRecursion(p)
    \/ GRWriteBack(p) \/ GRExcept(p)

\* The web demo's handlers run on worker threads and overlap; the bot's run
\* one at a time (LoopFree).
Next == \E p \in Procs : Start(p) \/ Continue(p)

Spec == Init /\ [][Next]_vars

\* One handler at a time in the web demo too: its buttons used one after
\* the other, each request sent after the previous one was answered.
AllIdle == \A q \in Procs : pc[q] = "idle"

SerialNext ==
    \E p \in Procs :
        \/ AllIdle /\ TextChat(p)
        \/ AllIdle /\ ProcessAudio(p)
        \/ AllIdle /\ ResetConversation(p)
        \/ AllIdle /\ HandleTextMessage(p)
        \/ AllIdle /\ HandleVoiceMessage(p)
        \/ AllIdle /\ ResetCommand(p)
        \/ Continue(p)

SerialSpec == Init /\ [][SerialNext]_vars

\* ------------------------------------------------------- tools (tools.py)
\* Texts are sequences of one-character strings.

TOOLS == {"web_search", "wikipedia_search", "fetch_website", "calculator",
          "get_current_time"}

Digits == {"0", "1", "2", "3", "4", "5", "6", "7", "8", "9"}

Letters == {"a", "b", "c", "d", "e", "f", "g", "h", "i", "j", "k", "l", "m",
            "n", "o", "p", "q", "r", "s", "t", "u", "v", "w", "x", "y", "z"}

Sqrt == <<"s", "q", "r", "t">>
Sin == <<"s", "i", "n">>
Cos == <<"c", "o", "s">>
Tan == <<"t", "a", "n">>
Log == <<"l", "o", "g">>
Exp == <<"e", "x", "p">>
Pow == <<"p", "o", "w">>

\* The names calculator rewrites to functions of the math module.
FunctionNames == {Sqrt, Sin, Cos, Tan, Log, Exp, Pow}

\* The character class of the pattern
\* ^[0-9+\-*/()., sqrt|sin|cos|tan|log|exp|pow]+$ : inside the brackets the
\* names and the bars are single characters, not alternatives.
PatternChars ==
    Digits \cup {"+", "-", "*", "/", "(", ")", ".", ",", " "}
           \cup {"s", "q", "r", "t", "|", "i", "n", "c", "o", "a", "l", "g",
                 "e", "x", "p", "w"}

\* expression.replace(' ', '')
StripSpaces(s) == SelectSeq(s, LAMBDA c : c # " ")

\* re.match(pattern, ...): one or more characters, all of the class.
Match(s) == s # <<>> /\ \A i \in 1..Len(s) : s[i] \in PatternChars

\* str.replace(old, new): every occurrence, leftmost first, not overlapping.
RECURSIVE Replace(_, _, _)
Replace(s, old, new) ==
    IF Len(s) < Len(old) THEN s
    ELSE IF SubSeq(s, 1, Len(old)) = old
         THEN new \o Replace(SubSeq(s, Len(old) + 1, Len(s)), old, new)
         ELSE <<Head(s)>> \o Replace(Tail(s), old, new)

MathName(f) == <<"m", "a", "t", "h", ".">> \o f

\* The seven expression.replace(name, 'math.' + name) calls, in their order.
ReplaceNames(s) ==
    LET s1 == Replace(s, Sqrt, MathName(Sqrt))
        s2 == Replace(s1, Sin, MathName(Sin))
        s3 == Replace(s2, Cos, MathName(Cos))
        s4 == Replace(s3, Tan, MathName(Tan))
        s5 == Replace(s4, Log, MathName(Log))
        s6 == Replace(s5, Exp, MathName(Exp))
    IN  Replace(s6, Pow, MathName(Pow))

Contains(s, sub) ==
    \E i \in 1..(Len(s) - Len(sub) + 1) : SubSeq(s, i, i + Len(sub) - 1) = sub

\* A call of the interpreter's builtin exit.
ExitCall == <<"e", "x", "i", "t", "(", ")">>

\* result = eval(expression): the interpreter computes a value, or raises an
\* Exception (SyntaxError, NameError, ZeroDivisionError, ...; the arithmetic
\* itself is not modelled), or, evaluating a call of exit, raises SystemExit,
\* which is not an Exception.
EvalOutcomes(s) ==
    IF s = ExitCall THEN {"SystemExit"}
    ELSE IF Contains(StripSpaces(s), ExitCall) THEN {"SystemExit", "Exception"}
    ELSE {"value", "Exception"}

\* The arguments the calculator is called with: up to MaxWords words.
CalcWords ==
    {<<"1">>, <<"+">>, <<"^">>, <<"(">>, <<")">>, <<" ">>, Sqrt, Sin,
     <<"e", "x", "i", "t">>, <<"i", "m", "p", "o", "r", "t">>, <<"o", "s">>}

RECURSIVE Flatten(_)
Flatten(ws) == IF ws = <<>> THEN <<>> ELSE Head(ws) \o Flatten(Tail(ws))

Expressions ==
    {Flatten(ws) : ws \in UNION {[1..n -> CalcWords] : n \in 0..MaxWords}}

ArgumentsOf(t) == IF t = "calculator" THEN Expressions ELSE {<<>>}

\* A tool of TOOLS has been called with an argument.
ToolInit ==
    /\ AgentsInit
    /\ tool \in TOOLS
    /\ argument \in ArgumentsOf(tool)
    /\ expression = <<>>
    /\ tool_pc = "called"
    /\ tool_result = "none"
    /\ evaluated = FALSE

\* The tool returns the text r.
Return(r) ==
    /\ tool_result' = r
    /\ tool_pc' = "returned"

\* web_search: the results, the no-results text, or the except clause's text.
WebSearch ==
    /\ tool = "web_search"
    /\ tool_pc = "called"
    /\ \E r \in {"results", "no_results", "problem_text"} : Return(r)
    /\ UNCHANGED <<agentVars, tool, argument, expression, evaluated>>

\* wikipedia_search: the summary, or the text of one of its three except
\* clauses (DisambiguationError, PageError, Exception).
WikipediaSearch ==
    /\ tool = "wikipedia_search"
    /\ tool_pc = "called"
    /\ \E r \in {"summary", "several_articles", "no_article", "error_text"} :
          Return(r)
    /\ UNCHANGED <<agentVars, tool, argument, expression, evaluated>>

\* fetch_website: the page's text, or the text of one of its two except
\* clauses (RequestException, Exception).
FetchWebsite ==
    /\ tool = "fetch_website"
    /\ tool_pc = "called"
    /\ \E r \in {"content", "fetch_error_text", "processing_error_text"} :
          Return(r)
    /\ UNCHANGED <<agentVars, tool, argument, expression, evaluated>>

\* get_current_time: the time in the zone, or, the zone lookup having
\* raised, the local time.
GetCurrentTime ==
    /\ tool = "get_current_time"
    /\ tool_pc = "called"
    /\ \E r \in {"zone_time", "local_time"} : Return(r)
    /\ UNCHANGED <<agentVars, tool, argument, expression, evaluated>>

\* calculator: the re.match test; a text that does not match is answered
\* with "Ungueltiger mathematischer Ausdruck."
CalculatorMatch ==
    /\ tool = "calculator"
    /\ tool_pc = "called"
    /\ expression' = argument
    /\ IF Match(StripSpaces(argument))
       THEN tool_pc' = "replace" /\ UNCHANGED tool_result
       ELSE Return("invalid_expression")
    /\ UNCHANGED <<agentVars, tool, argument, evaluated>>

\* calculator: the seven replace calls.
CalculatorReplace ==
    /\ tool = "calculator"
    /\ tool_pc = "replace"
    /\ expression' = ReplaceNames(expression)
    /\ tool_pc' = "eval"
    /\ UNCHANGED <<agentVars, tool, argument, tool_result, evaluated>>

\* calculator: eval(expression); the value is returned as text, an Exception
\* is caught and returned as text, anything else leaves the tool.
CalculatorEval ==
    /\ tool = "calculator"
    /\ tool_pc = "eval"
    /\ evaluated' = TRUE
    /\ \E o \in EvalOutcomes(expression) :
          CASE o = "value" -> Return("calculation")
            [] o = "Exception" -> Return("calculation_error_text")
            [] o = "SystemExit" -> tool_pc' = "raised" /\ UNCHANGED tool_result
    /\ UNCHANGED <<agentVars, tool, argument, expression>>

ToolNext ==
    \/ WebSearch \/ WikipediaSearch \/ FetchWebsite \/ GetCurrentTime
    \/ CalculatorMatch \/ CalculatorReplace \/ CalculatorEval

ToolSpec == ToolInit /\ [][ToolNext]_vars

\* ------------------------------------------------------------------ claims

\* Positions inside generate_response_with_tools, from the append of the user
\* message to the return of the response.
InTurn(p) ==
    pc[p] \in {"gr_append", "gr_truncate", "gr_invoke", "agent_node",
               "tools_node", "gr_writeback", "gr_except"}

\* generate_response_with_tools has returned to the handler.
Returned(p) == pc[p] = "gr_return"

TurnMessages(msgs, t) == {i \in 1..Len(msgs) : msgs[i].turn = t}

\* C1: whenever no turn of a session is running, the number of messages
\* stored in the session's history is at most 2 * max_history.
C1_HistoryBounded ==
    \A a \in Agents :
        (\A p \in Procs : AgentOf(p) = a => ~InTurn(p))
        => Len(messages[a]) <= 2 * max_history

\* Every message left belongs to a turn whose user message is left too, and
\* the first message left is a user message.
WholeTurns(msgs) ==
    /\ msgs # <<>> => msgs[1].role = "human"
    /\ \A i \in 1..Len(msgs) :
          msgs[i].role # "human" =>
              \E j \in 1..(i - 1) :
                  msgs[j].role = "human" /\ msgs[j].turn = msgs[i].turn

\* C2: whenever the truncation of generate_response_with_tools drops
\* messages, what remains begins with a user message and holds no assistant
\* or tool message whose user message was dropped.
C2_TruncationKeepsWholeTurns ==
    [][\A p \in Procs :
          (/\ pc[p] = "gr_truncate"
           /\ pc'[p] = "gr_invoke"
           /\ Len(messages'[AgentOf(p)]) < Len(messages[AgentOf(p)]))
          => WholeTurns(messages'[AgentOf(p)])]_vars

\* C3: when agent.invoke raised in a turn, the history after the call is the
\* history before the turn was submitted.
C3_FailedCallLeavesHistory ==
    \A p \in Procs :
        (Returned(p) /\ response[p].kind = "error")
        => messages[AgentOf(p)] = before[p]

\* The most reasoning-engine calls one invoke can make under recursion_limit.
MaxEngineCalls == (recursion_limit + 1) \div 2

\* The turn is past its reasoning loop.
PastLoop(p) ==
    /\ llm_calls[p] > 0
    /\ pc[p] \notin {"agent_node", "tools_node", "gr_writeback", "gr_except"}

C5_OneTurnInFlightPerSession ==
    \A p, q \in Procs :
        (p # q /\ AgentOf(p) = AgentOf(q)) => ~(InTurn(p) /\ InTurn(q))

\* C6: a step of one identity's turn or reset never changes the history of
\* another identity's session.
C6_OtherIdentitiesUnchanged ==
    [][\A p \in Procs :
          messages'[AgentOf(p)] # messages[AgentOf(p)] => pc'[p] # pc[p]]_vars

\* The engine of p's turn asked for one tool on its first call and gave a
\* final answer on its second.
OneToolThenAnswer(p) == Returned(p) /\ replies[p] = <<"tool", "answer">>

\* C7: for an engine that asks for one tool on its first call and answers on
\* its second, the turn runs exactly one tool and the history then holds, in
\* this order, the turn's user message, its tool result and its final
\* assistant message.
C7_OneToolTurn ==
    \A p \in Procs :
        OneToolThenAnswer(p) =>
            LET msgs == messages[AgentOf(p)] IN
            /\ tool_calls[p] = 1
            /\ Cardinality({i \in TurnMessages(msgs, turn[p]) :
                                msgs[i].role = "tool"}) = 1
            /\ \E i, j, k \in TurnMessages(msgs, turn[p]) :
                  /\ i < j /\ j < k /\ k = Len(msgs)
                  /\ msgs[i] = HumanMessage(turn[p], text[p])
                  /\ msgs[j] = ToolMessage(turn[p])
                  /\ msgs[k].role = "ai" /\ ~msgs[k].tool_calls

C7_Witness == \E p \in Procs : OneToolThenAnswer(p)

\* C8: no handler that has returned has left a temp file it created.
C8_TempFilesReleased == ~leftover

\* C9: no input is transcribed that was not preprocessed (reduce_noise) before.
C9_PreprocessBeforeTranscribe ==
    \A p \in Procs : transcribed[p] => preprocessed[p]

\* The input of p's running handler is empty: empty text, or audio whose
\* transcription is empty.
EmptyInput(p) ==
    /\ text[p] = ""
    /\ \/ op[p] = "text"
       \/ op[p] = "audio" /\ transcribed[p] /\ pc[p] # "handler_except"

\* C10: a turn with empty input makes no reasoning-engine call and leaves no
\* message in the history.
C10_EmptyInputRejected ==
    \A p \in Procs :
        EmptyInput(p) =>
            /\ llm_calls[p] = 0
            /\ TurnMessages(messages[AgentOf(p)], turn[p]) = {}

\* C13: when the transcription backend or the synthesis backend raised in an
\* audio turn, the session's history is the history the turn started from.
C13_BackendFailureLeavesHistory ==
    \A p \in Procs :
        (pc[p] = "handler_except" /\ exc[p] \in {"transcription", "synthesis"})
        => messages[AgentOf(p)] = before[p]

\* VoiceAgent.process: transcribe, generate_response_with_tools, text_to_speech.
AudioPipeline == <<"transcribe", "reason", "synthesize">>

IsPrefix(s, t) == Len(s) <= Len(t) /\ SubSeq(t, 1, Len(s)) = s

\* C14: the steps a handler has called are, in this order and each at most
\* once, transcription, reasoning loop and synthesis for an audio turn, and
\* the reasoning loop alone for a text turn; the reasoning loop starts only
\* after transcription returned, and synthesis is handed the text the loop
\* returned.
C14_StepsInOrder ==
    \A p \in Procs :
        /\ op[p] = "audio" => IsPrefix(calls[p], AudioPipeline)
        /\ op[p] = "text" => IsPrefix(calls[p], <<"reason">>)
        /\ InTurn(p) /\ pc[p] # "gr_append" =>
              calls[p] = IF op[p] = "audio" THEN <<"transcribe", "reason">>
                         ELSE <<"reason">>
        /\ calls[p] = AudioPipeline =>
              spoken[p] = response[p] /\ response[p] # NoResponse

\* An audio turn has run all three steps and an answer was spoken.
C14_Witness ==
    \E p \in Procs :
        /\ op[p] = "audio"
        /\ calls[p] = AudioPipeline
        /\ spoken[p].kind = "answer"

\* C15: the text a turn returns as its answer is the content of an assistant
\* message produced in that turn, never that of an earlier turn's message.
C15_ResponseFromThisTurn ==
    \A p \in Procs :
        (Returned(p) /\ response[p].kind = "answer")
        => response[p].turn = turn[p]

\* C16: once no handler of a session is running, its history holds no
\* message that a completed reset_history had removed.
C16_ResetNotUndone ==
    \A a \in Agents :
        (\A p \in Procs : AgentOf(p) = a => pc[p] = "idle")
        => \A i \in 1..Len(messages[a]) : messages[a][i].turn \notin cleared

\* The maximal runs of letters in a text.
Identifiers(s) ==
    {SubSeq(s, r[1], r[2]) :
        r \in {q \in (1..Len(s)) \X (1..Len(s)) :
                  /\ q[1] <= q[2]
                  /\ \A i \in q[1]..q[2] : s[i] \in Letters
                  /\ q[1] = 1 \/ s[q[1] - 1] \notin Letters
                  /\ q[2] = Len(s) \/ s[q[2] + 1] \notin Letters}}

\* Built from numeric literals, the operators + - * / ^, parentheses (and the
\* comma and blank between arguments) and the seven function names only.
AllowListed(s) ==
    /\ \A i \in 1..Len(s) :
          s[i] \in Letters \cup Digits
                   \cup {"+", "-", "*", "/", "^", "(", ")", ".", ",", " "}
    /\ Identifiers(s) \subseteq FunctionNames

\* C11: the calculator passes to eval only arguments built from the allowed
\* tokens, and answers every other argument with the invalid-expression text.
C11_OnlyAllowListedEvaluated ==
    /\ evaluated => AllowListed(argument)
    /\ (tool = "calculator" /\ tool_pc = "returned" /\ ~AllowListed(argument))
       => tool_result = "invalid_expression"

\* C12: no call of a tool ends with a fault leaving the tool; a call that
\* has ended has returned a text.
C12_ToolsReturnText ==
    /\ tool_pc # "raised"
    /\ tool_pc = "returned" => tool_result # "none"
====
